---- MODULE Spec2Model ----
(***************************************************************************)
(* Model of gforms/forms_tools.py: create_form and its helper              *)
(* _build_question_requests, which converts the simplified question        *)
(* schema into Google Forms batchUpdate createItem requests.               *)
(*                                                                         *)
(* Python values that come from the caller are tagged records              *)
(* [t |-> <python type>, v |-> <value>]; a dict is a TLA+ function whose   *)
(* DOMAIN is the set of keys present, so "key missing" and "key present    *)
(* with value None" are different inputs, as they are for dict.get.        *)
(***************************************************************************)
EXTENDS Integers, Sequences, FiniteSets, TLC

\* ---------------------------------------------------------------- bounds
MaxQuestions == 3
MaxFieldQuestions == 2
MaxOptions == 2

\* ----------------------------------------------------------------- state
VARIABLES
    entry,          \* function invoked: "builder" or "create_form"
    questions,      \* the questions argument (None or a list of dicts)
    pc,             \* position in the invoked function
    i,              \* enumerate index of the next descriptor
    requests,       \* the builder's local list `requests`
    builderStatus,  \* "idle", "running", "returned" or "raised"
    callNo,         \* number of the builder call in progress (direct calls)
    previous,       \* what the previous direct call returned
    calls,          \* remote calls issued so far, in order
    createdForm,    \* answer of forms.create
    formItems,      \* items of the remote form
    batchOutcome,   \* "none", "applied", "rejected", "unavailable", "error"
    result          \* what create_form returned or raised

vars == <<entry, questions, pc, i, requests, builderStatus, callNo, previous,
          calls, createdForm, formItems, batchOutcome, result>>

\* ---------------------------------------------------------- Python values
None == [t |-> "None"]
Str(s) == [t |-> "str", v |-> s]
Int_(n) == [t |-> "int", v |-> n]
Bool(b) == [t |-> "bool", v |-> b]
List(s) == [t |-> "list", v |-> s]
Dict(f) == [t |-> "dict", v |-> f]

EmptyDict == <<>>

\* dict.get(key, default)
Get(d, k, default) == IF k \in DOMAIN d THEN d[k] ELSE default

\* bool(x) as used by `if questions:`
Truthy(x) ==
    CASE x.t = "None" -> FALSE
      [] x.t = "list" -> Len(x.v) > 0
      [] x.t = "bool" -> x.v
      [] x.t = "int" -> x.v # 0
      [] x.t = "str" -> x.v # ""
      [] x.t = "dict" -> DOMAIN x.v # {}

DigitChar == <<"0", "1", "2", "3", "4", "5", "6", "7", "8", "9">>

RECURSIVE NatToString(_)
NatToString(n) ==
    IF n < 10 THEN DigitChar[n + 1]
    ELSE NatToString(n \div 10) \o DigitChar[(n % 10) + 1]

\* str(x) for the values scale_min / scale_max can hold
PyStr(x) ==
    CASE x.t = "None" -> "None"
      [] x.t = "int" -> IF x.v < 0 THEN "-" \o NatToString(0 - x.v)
                        ELSE NatToString(x.v)
      [] x.t = "str" -> x.v
      [] x.t = "bool" -> IF x.v THEN "True" ELSE "False"

\* `for opt in options` works; iterating None raises TypeError
Iterable(x) == x.t = "list"

\* `scale_labels.get` exists; None has no attribute get (AttributeError)
HasGet(x) == x.t = "dict"

\* ------------------------------------------- _build_question_requests
SupportedTypes ==
    {"TEXT_QUESTION", "MULTIPLE_CHOICE_QUESTION", "SCALE_QUESTION",
     "CHECKBOX_QUESTION", "DATE_QUESTION", "TIME_QUESTION"}

\* question_type = q.get("type")
QuestionType(q) == Get(q, "type", None)

\* some branch of the if/elif chain matches, i.e. the else/continue is not taken
Supported(q) ==
    /\ QuestionType(q).t = "str"
    /\ QuestionType(q).v \in SupportedTypes

IsType(q, name) == QuestionType(q) = Str(name)

\* variant: q.get("required") without the False default
ItemBaseRequiredNull(q) ==
    [title |-> Get(q, "title", None),
     description |-> Get(q, "description", None),
     required |-> Get(q, "required", None)]

\* item = {"title": ..., "description": ..., "questionItem": {"question": {"required": ...}}}
ItemBase(q) ==
    [title |-> Get(q, "title", None),
     description |-> Get(q, "description", None),
     required |-> Get(q, "required", Bool(FALSE))]

\* variant: the options come out in reverse order
OptionsPayloadReversed(options) ==
    [j \in 1..Len(options.v) |-> [value |-> options.v[Len(options.v) + 1 - j]]]

\* [{"value": opt} for opt in options]
OptionsPayload(options) ==
    [j \in 1..Len(options.v) |-> [value |-> options.v[j]]]

ChoiceQuestion(q, choiceType) ==
    [type |-> choiceType,
     options |-> OptionsPayload(Get(q, "options", List(<<>>)))]

\* variant: the labels are looked up under the docstring's key names
ScaleQuestionDocKeys(q) ==
    LET scale_labels == Get(q, "scale_labels", Dict(EmptyDict))
    IN  [low |-> Get(q, "scale_min", None),
         high |-> Get(q, "scale_max", None),
         lowLabel |-> Get(scale_labels.v, "min_value", None),
         highLabel |-> Get(scale_labels.v, "max_value", None)]

ScaleQuestion(q) ==
    LET scale_min == Get(q, "scale_min", None)
        scale_max == Get(q, "scale_max", None)
        scale_labels == Get(q, "scale_labels", Dict(EmptyDict))
    IN  [low |-> scale_min,
         high |-> scale_max,
         lowLabel |-> Get(scale_labels.v, PyStr(scale_min), None),
         highLabel |-> Get(scale_labels.v, PyStr(scale_max), None)]

\* variant: `q.get(flag) or default`, which replaces a given False
DateQuestionOrDefault(q) ==
    [includeTime |-> IF Truthy(Get(q, "include_time", None))
                     THEN q.include_time ELSE Bool(FALSE),
     includeYear |-> IF Truthy(Get(q, "include_year", None))
                     THEN q.include_year ELSE Bool(TRUE)]

DateQuestion(q) ==
    [includeTime |-> Get(q, "include_time", Bool(FALSE)),
     includeYear |-> Get(q, "include_year", Bool(TRUE))]

\* the key added to item["questionItem"]["question"] by the matching branch
Payload(q) ==
    CASE IsType(q, "TEXT_QUESTION") -> "textQuestion" :> EmptyDict
      [] IsType(q, "MULTIPLE_CHOICE_QUESTION") ->
             "choiceQuestion" :> ChoiceQuestion(q, "RADIO")
      [] IsType(q, "SCALE_QUESTION") -> "scaleQuestion" :> ScaleQuestion(q)
      [] IsType(q, "CHECKBOX_QUESTION") ->
             "choiceQuestion" :> ChoiceQuestion(q, "CHECKBOX")
      [] IsType(q, "DATE_QUESTION") -> "dateQuestion" :> DateQuestion(q)
      [] IsType(q, "TIME_QUESTION") -> "timeQuestion" :> EmptyDict

Item(q) ==
    [title |-> ItemBase(q).title,
     description |-> ItemBase(q).description,
     questionItem |->
         [question |-> ("required" :> ItemBase(q).required) @@ Payload(q)]]

\* variant: the index is renumbered over the requests built so far
LocationIndexCompacted(idx) == Len(requests)

\* "index": i
LocationIndex(idx) == idx

CreateItemRequest(idx, q) ==
    [createItem |-> [item |-> Item(q), location |-> [index |-> LocationIndex(idx)]]]

\* the matching branch raises: TypeError from iterating options, or
\* AttributeError from scale_labels.get
Raises(q) ==
    \/ /\ IsType(q, "MULTIPLE_CHOICE_QUESTION") \/ IsType(q, "CHECKBOX_QUESTION")
       /\ ~Iterable(Get(q, "options", List(<<>>)))
    \/ /\ IsType(q, "SCALE_QUESTION")
       /\ ~HasGet(Get(q, "scale_labels", Dict(EmptyDict)))

\* ------------------------------------------------------------ inputs
\* sequences over S of length 0..n
SeqUpTo(S, n) == UNION {[1..k -> S] : k \in 0..n}

\* a key that is either missing or present with one of the values
Opt(k, Vals) == {<<>>} \cup {k :> v : v \in Vals}

OptionLists == {List(s) : s \in SeqUpTo({Str("a"), Str("b")}, MaxOptions)}

Commons ==
    {<<>>,
     [title |-> Str("U"), description |-> Str("d"), required |-> Bool(TRUE)]}

Typed(name) == [type |-> Str(name), title |-> Str("T")]

\* one descriptor per shape of control flow: each supported kind, an unknown
\* kind, no kind, and null fields under a supported and an unknown kind
Descriptors ==
    {Typed("TEXT_QUESTION"),
     Typed("TIME_QUESTION"),
     Typed("DATE_QUESTION"),
     Typed("GRID_QUESTION"),
     [title |-> Str("T")],
     Typed("SCALE_QUESTION") @@ [scale_min |-> Int_(1), scale_max |-> Int_(5)],
     Typed("MULTIPLE_CHOICE_QUESTION") @@ [options |-> List(<<Str("a"), Str("b")>>)],
     Typed("CHECKBOX_QUESTION") @@ [options |-> List(<<Str("a")>>)],
     Typed("CHECKBOX_QUESTION") @@ [options |-> None],
     Typed("SCALE_QUESTION") @@ [scale_labels |-> None],
     Typed("GRID_QUESTION") @@ [options |-> None, scale_labels |-> None]}

ScaleLabels ==
    {None,
     Dict(EmptyDict),
     Dict("1" :> Str("Low") @@ "5" :> Str("High")),
     Dict("1" :> Str("Low")),
     Dict("10" :> Str("Top") @@ "None" :> Str("n/a")),
     Dict("min_value" :> Str("Low") @@ "max_value" :> Str("High"))}

ScaleFields ==
    {[scale_min |-> Int_(1), scale_max |-> Int_(5)] @@ c :
        c \in Opt("scale_labels", ScaleLabels)}
    \cup {[scale_labels |-> Dict("10" :> Str("Top") @@ "None" :> Str("n/a"))],
          [scale_min |-> None, scale_max |-> Int_(10),
           scale_labels |-> Dict("10" :> Str("Top") @@ "None" :> Str("n/a"))],
          [scale_min |-> Int_(5), scale_max |-> Int_(5),
           scale_labels |-> Dict("1" :> Str("Low") @@ "5" :> Str("High"))],
          [scale_min |-> Int_(1),
           scale_labels |-> Dict("1" :> Str("Low") @@ "5" :> Str("High"))]}

DateFields ==
    {a @@ b :
        a \in Opt("include_time", {Bool(TRUE), Bool(FALSE)}),
        b \in Opt("include_year", {Bool(TRUE), Bool(FALSE)})}

AllTypes == SupportedTypes \cup {"GRID_QUESTION"}

\* descriptors varying the kind-specific and the common fields
FieldDescriptors ==
    {c @@ t : c \in Commons, t \in Opt("type", {Str(n) : n \in AllTypes})}
    \cup {Typed("MULTIPLE_CHOICE_QUESTION") @@ o :
            o \in Opt("options", OptionLists \cup {None})}
    \cup {Typed("CHECKBOX_QUESTION") @@ o :
            o \in Opt("options", {None, List(<<Str("b"), Str("a")>>),
                                  List(<<Str("a"), Str("a")>>)})}
    \cup {Typed("SCALE_QUESTION") @@ f : f \in ScaleFields}
    \cup {Typed("DATE_QUESTION") @@ f : f \in DateFields}

\* ------------------------------------------------- remote Forms service
\* the service's answer to forms.create
CreatedForms ==
    {[formId |-> "F1"],
     [formId |-> "F1", responderUri |-> "https://forms.gle/F1"]}

\* one createItem applied to the form's item list: the item is inserted at
\* location.index, which has to be a position of the list or its end
RECURSIVE ApplyBatch(_, _)
ApplyBatch(items, reqs) ==
    IF reqs = <<>> THEN [ok |-> TRUE, items |-> items]
    ELSE LET r == Head(reqs).createItem
             idx == r.location.index
         IN  IF idx > Len(items) THEN [ok |-> FALSE, items |-> items]
             ELSE ApplyBatch(SubSeq(items, 1, idx) \o <<r.item>>
                                \o SubSeq(items, idx + 1, Len(items)),
                             Tail(reqs))

NoResult == [status |-> "none"]
NoForm == [formId |-> "none"]

InitWith(D, n) ==
    /\ entry \in {"builder", "create_form"}
    /\ questions \in
         {List(s) : s \in SeqUpTo(D, n)}
           \cup (IF entry = "create_form" THEN {None} ELSE {})
    /\ pc = IF entry = "builder" THEN "loop" ELSE "create"
    /\ i = 0
    /\ requests = <<>>
    /\ builderStatus = IF entry = "builder" THEN "running" ELSE "idle"
    /\ callNo = IF entry = "builder" THEN 1 ELSE 0
    /\ previous = <<>>
    /\ calls = <<>>
    /\ createdForm = NoForm
    /\ formItems = <<>>
    /\ batchOutcome = "none"
    /\ result = NoResult

Init == InitWith(Descriptors, MaxQuestions)

InitFields == InitWith(FieldDescriptors, MaxFieldQuestions)

\* the descriptor the loop is at
Current == questions.v[i + 1]

\* ------------------------------------------- _build_question_requests
\* variant: the kind is read with q.pop("type"), which edits the descriptor
BuildAppendPopType ==
    /\ pc = "loop"
    /\ i < Len(questions.v)
    /\ Supported(Current)
    /\ ~Raises(Current)
    /\ requests' = Append(requests, CreateItemRequest(i, Current))
    /\ questions' =
         List([questions.v EXCEPT
                 ![i + 1] = [k \in DOMAIN Current \ {"type"} |-> Current[k]]])
    /\ i' = i + 1
    /\ UNCHANGED <<entry, pc, builderStatus, callNo, previous, calls,
                   createdForm, formItems, batchOutcome, result>>

\* a supported kind: build the item and append the request
BuildAppend ==
    /\ pc = "loop"
    /\ i < Len(questions.v)
    /\ Supported(Current)
    /\ ~Raises(Current)
    /\ requests' = Append(requests, CreateItemRequest(i, Current))
    /\ i' = i + 1
    /\ UNCHANGED <<entry, questions, pc, builderStatus, callNo, previous, calls,
                   createdForm, formItems, batchOutcome, result>>

\* variant: the else branch leaves the loop (break) instead of continuing
BuildSkipBreak ==
    /\ pc = "loop"
    /\ i < Len(questions.v)
    /\ ~Supported(Current)
    /\ i' = Len(questions.v)
    /\ UNCHANGED <<entry, questions, pc, requests, builderStatus, callNo,
                   previous, calls, createdForm, formItems, batchOutcome, result>>

\* else branch: log a warning and continue
BuildSkip ==
    /\ pc = "loop"
    /\ i < Len(questions.v)
    /\ ~Supported(Current)
    /\ i' = i + 1
    /\ UNCHANGED <<entry, questions, pc, requests, builderStatus, callNo,
                   previous, calls, createdForm, formItems, batchOutcome, result>>

\* the branch of a supported kind raises; nothing catches it in the builder,
\* and in create_form it leaves the function (it is not an HttpError)
BuildRaise ==
    /\ pc = "loop"
    /\ i < Len(questions.v)
    /\ Supported(Current)
    /\ Raises(Current)
    /\ builderStatus' = "raised"
    /\ pc' = "done"
    /\ result' = IF entry = "create_form"
                 THEN [status |-> "raised", error |-> "TypeError"]
                 ELSE result
    /\ UNCHANGED <<entry, questions, i, requests, callNo, previous, calls,
                   createdForm, formItems, batchOutcome>>

\* return requests
BuildReturn ==
    /\ pc = "loop"
    /\ i = Len(questions.v)
    /\ builderStatus' = "returned"
    /\ pc' = IF entry = "builder" THEN "done" ELSE "batch"
    /\ UNCHANGED <<entry, questions, i, requests, callNo, previous, calls,
                   createdForm, formItems, batchOutcome, result>>

\* the caller invokes the builder a second time with the same list object
CallAgain ==
    /\ entry = "builder"
    /\ pc = "done"
    /\ builderStatus = "returned"
    /\ callNo = 1
    /\ previous' = requests
    /\ requests' = <<>>
    /\ i' = 0
    /\ callNo' = 2
    /\ builderStatus' = "running"
    /\ pc' = "loop"
    /\ UNCHANGED <<entry, questions, calls, createdForm, formItems,
                   batchOutcome, result>>

\* ----------------------------------------------------------- create_form
EditUrl(form_id) == "https://docs.google.com/forms/d/" \o form_id \o "/edit"

ResponderUrl(created) ==
    Get(created, "responderUri",
        "https://docs.google.com/forms/d/" \o created.formId \o "/viewform")

\* confirmation_message, by its parts; warning is the appended
\* "WARNING: Failed to add questions ..." text
Confirmation(created, warning) ==
    [status |-> "returned",
     formId |-> created.formId,
     editUrl |-> EditUrl(created.formId),
     responderUrl |-> ResponderUrl(created),
     warning |-> warning]

\* forms().create(...).execute succeeds; without questions the confirmation
\* is returned at once, otherwise the builder runs
FormsCreate ==
    /\ pc = "create"
    /\ \E created \in CreatedForms :
         /\ createdForm' = created
         /\ calls' = Append(calls, "create")
         /\ IF Truthy(questions)
            THEN /\ pc' = "loop"
                 /\ builderStatus' = "running"
                 /\ result' = result
            ELSE /\ pc' = "done"
                 /\ builderStatus' = builderStatus
                 /\ result' = Confirmation(created, FALSE)
    /\ UNCHANGED <<entry, questions, i, requests, callNo, previous, formItems,
                   batchOutcome>>

\* forms().create(...).execute raises; create_form has no handler around it
FormsCreateFails ==
    /\ pc = "create"
    /\ calls' = Append(calls, "create")
    /\ pc' = "done"
    /\ result' = [status |-> "raised", error |-> "HttpError"]
    /\ UNCHANGED <<entry, questions, i, requests, builderStatus, callNo,
                   previous, createdForm, formItems, batchOutcome>>

\* variant: no except clause, the HttpError leaves create_form
BatchHttpErrorPropagates == [status |-> "raised", error |-> "HttpError"]

\* except HttpError: return the confirmation with the warning
BatchHttpErrorResult == Confirmation(createdForm, TRUE)

\* batchUpdate accepted: every request inserted, plain confirmation returned
BatchUpdateApplied ==
    /\ pc = "batch"
    /\ ApplyBatch(formItems, requests).ok
    /\ formItems' = ApplyBatch(formItems, requests).items
    /\ calls' = Append(calls, "batchUpdate")
    /\ batchOutcome' = "applied"
    /\ result' = Confirmation(createdForm, FALSE)
    /\ pc' = "done"
    /\ UNCHANGED <<entry, questions, i, requests, builderStatus, callNo,
                   previous, createdForm>>

\* batchUpdate refused because a location index is outside the form: HttpError
BatchUpdateRejected ==
    /\ pc = "batch"
    /\ ~ApplyBatch(formItems, requests).ok
    /\ calls' = Append(calls, "batchUpdate")
    /\ batchOutcome' = "rejected"
    /\ result' = BatchHttpErrorResult
    /\ pc' = "done"
    /\ UNCHANGED <<entry, questions, i, requests, builderStatus, callNo,
                   previous, createdForm, formItems>>

\* batchUpdate fails with an HttpError for another reason (quota, 5xx, ...)
BatchUpdateUnavailable ==
    /\ pc = "batch"
    /\ calls' = Append(calls, "batchUpdate")
    /\ batchOutcome' = "unavailable"
    /\ result' = BatchHttpErrorResult
    /\ pc' = "done"
    /\ UNCHANGED <<entry, questions, i, requests, builderStatus, callNo,
                   previous, createdForm, formItems>>

\* batchUpdate raises something that is not an HttpError: it propagates
BatchUpdateOtherError ==
    /\ pc = "batch"
    /\ calls' = Append(calls, "batchUpdate")
    /\ batchOutcome' = "error"
    /\ result' = [status |-> "raised", error |-> "Exception"]
    /\ pc' = "done"
    /\ UNCHANGED <<entry, questions, i, requests, builderStatus, callNo,
                   previous, createdForm, formItems>>

Next ==
    \/ BuildAppend
    \/ BuildSkip
    \/ BuildRaise
    \/ BuildReturn
    \/ CallAgain
    \/ FormsCreate
    \/ FormsCreateFails
    \/ BatchUpdateApplied
    \/ BatchUpdateRejected
    \/ BatchUpdateUnavailable
    \/ BatchUpdateOtherError

Spec == Init /\ [][Next]_vars

SpecFields == InitFields /\ [][Next]_vars

TypeOK ==
    /\ entry \in {"builder", "create_form"}
    /\ pc \in {"create", "loop", "batch", "done"}
    /\ i \in 0..(MaxQuestions + MaxFieldQuestions)
    /\ builderStatus \in {"idle", "running", "returned", "raised"}
    /\ batchOutcome \in {"none", "applied", "rejected", "unavailable", "error"}

\* ------------------------------------------------- reading the outcome
\* the builder has returned; `requests` is its return value
Returned == builderStatus = "returned"

\* the descriptors passed to the builder
Input == questions.v

\* a descriptor's kind as the caller wrote it; no kind at all is None
KindOf(q) == IF "type" \in DOMAIN q THEN q.type ELSE None

SupportedKind(q) == \E n \in SupportedTypes : KindOf(q) = Str(n)

\* a field as the caller wrote it, or the documented default when missing
Given(q, field, default) == IF field \in DOMAIN q THEN q[field] ELSE default

\* ascending 0-based positions below n whose descriptor has a supported kind
RECURSIVE SupportedIndicesBelow(_, _)
SupportedIndicesBelow(qs, n) ==
    IF n = 0 THEN <<>>
    ELSE IF SupportedKind(qs[n])
         THEN Append(SupportedIndicesBelow(qs, n - 1), n - 1)
         ELSE SupportedIndicesBelow(qs, n - 1)

OutputIndices ==
    [k \in 1..Len(requests) |-> requests[k].createItem.location.index]

\* the output entries placed at the 0-based input position j
EntriesAt(j) ==
    {k \in 1..Len(requests) : requests[k].createItem.location.index = j}

QuestionOf(k) == requests[k].createItem.item.questionItem.question

\* C1: the output holds one createItem request per supported-kind descriptor,
\* in input order, and each request's location index is the descriptor's
\* original input index (not renumbered after skips); this holds of the list
\* under construction after every iteration and of the returned list.
C1_OriginalIndices ==
    /\ builderStatus \in {"running", "returned"} =>
           OutputIndices = SupportedIndicesBelow(Input, i)
    /\ Returned => i = Len(Input)

\* a run on three descriptors whose middle one is skipped: indices [0, 2]
C1_Witness ==
    /\ Returned
    /\ Len(Input) = 3
    /\ ~SupportedKind(Input[2])
    /\ OutputIndices = <<0, 2>>

\* C2: a descriptor of an unsupported kind (or with no kind) produces no
\* entry and does not stop the loop: the returned list has as many entries
\* as there are supported-kind descriptors, never more than the input, and
\* an empty input gives an empty output; no error is ever raised at a
\* descriptor of an unsupported kind.
C2_UnsupportedSkipped ==
    /\ Returned =>
        /\ Len(requests) =
               Cardinality({j \in 1..Len(Input) : SupportedKind(Input[j])})
        /\ Len(requests) <= Len(Input)
        /\ \A j \in 1..Len(Input) :
               ~SupportedKind(Input[j]) => EntriesAt(j - 1) = {}
        /\ Input = <<>> => requests = <<>>
    /\ builderStatus = "raised" => SupportedKind(Input[i + 1])

\* an unsupported descriptor, also one without a kind, followed by a
\* supported one that still got its entry
C2_Witness ==
    /\ Returned
    /\ Len(Input) = 3
    /\ "type" \notin DOMAIN Input[1]
    /\ ~SupportedKind(Input[2])
    /\ SupportedKind(Input[3])
    /\ Len(requests) = 1

\* the items the caller meant the form to hold, in order
IntendedItems == [k \in 1..Len(requests) |-> requests[k].createItem.item]

C4_NeverRaises == builderStatus # "raised"

\* the options a descriptor lists; none when the field is missing
GivenOptions(q) ==
    IF "options" \in DOMAIN q /\ q.options.t = "list" THEN q.options.v ELSE <<>>

ChoiceKinds ==
    [MULTIPLE_CHOICE_QUESTION |-> "RADIO", CHECKBOX_QUESTION |-> "CHECKBOX"]

\* C5: for every MULTIPLE_CHOICE or CHECKBOX descriptor the output entry's
\* choiceQuestion lists the descriptor's options in the same number and
\* order, the j-th being {value: options[j]} (duplicates kept), with type
\* RADIO for MULTIPLE_CHOICE and CHECKBOX for CHECKBOX.
C5_OptionsPreserved ==
    Returned =>
        \A j \in 1..Len(Input) : \A n \in DOMAIN ChoiceKinds :
            KindOf(Input[j]) = Str(n) =>
                /\ EntriesAt(j - 1) # {}
                /\ \A k \in EntriesAt(j - 1) :
                     LET cq == QuestionOf(k).choiceQuestion
                         opts == GivenOptions(Input[j])
                     IN  /\ cq.type = ChoiceKinds[n]
                         /\ Len(cq.options) = Len(opts)
                         /\ \A o \in 1..Len(opts) :
                                cq.options[o] = [value |-> opts[o]]

\* a choice descriptor with two different options, and one with a duplicate
C5_Witness ==
    /\ Returned
    /\ \E j \in 1..Len(Input) :
         /\ KindOf(Input[j]) = Str("MULTIPLE_CHOICE_QUESTION")
         /\ GivenOptions(Input[j]) = <<Str("b"), Str("a")>>
         /\ EntriesAt(j - 1) # {}
    /\ \E j \in 1..Len(Input) :
         /\ KindOf(Input[j]) = Str("CHECKBOX_QUESTION")
         /\ GivenOptions(Input[j]) = <<Str("a"), Str("a")>>
         /\ EntriesAt(j - 1) # {}

\* the decimal text of the scale bounds used as inputs
BoundKey(x) ==
    CASE x = None -> "None"
      [] x = Int_(1) -> "1"
      [] x = Int_(5) -> "5"
      [] x = Int_(10) -> "10"

\* the label a descriptor gives for a bound; None when there is none
GivenLabel(q, bound) ==
    IF "scale_labels" \in DOMAIN q /\ q.scale_labels.t = "dict"
       /\ BoundKey(bound) \in DOMAIN q.scale_labels.v
    THEN q.scale_labels.v[BoundKey(bound)]
    ELSE None

Variants ==
    {"textQuestion", "choiceQuestion", "scaleQuestion", "dateQuestion",
     "timeQuestion"}

VariantOf ==
    [TEXT_QUESTION |-> "textQuestion",
     MULTIPLE_CHOICE_QUESTION |-> "choiceQuestion",
     SCALE_QUESTION |-> "scaleQuestion",
     CHECKBOX_QUESTION |-> "choiceQuestion",
     DATE_QUESTION |-> "dateQuestion",
     TIME_QUESTION |-> "timeQuestion"]

\* C7: every output entry carries exactly one payload variant, the one of
\* its descriptor's kind (an empty marker for TEXT and TIME), next to
\* `required`; title, description and required are the descriptor's values,
\* with null for a missing title or description and false for a missing
\* required.
C7_VariantAndCommonFields ==
    Returned =>
        \A k \in 1..Len(requests) :
            LET q == Input[requests[k].createItem.location.index + 1]
                item == requests[k].createItem.item
            IN  /\ SupportedKind(q)
                /\ DOMAIN QuestionOf(k) = {"required", VariantOf[KindOf(q).v]}
                /\ KindOf(q).v \in {"TEXT_QUESTION", "TIME_QUESTION"} =>
                       QuestionOf(k)[VariantOf[KindOf(q).v]] = <<>>
                /\ item.title = Given(q, "title", None)
                /\ item.description = Given(q, "description", None)
                /\ QuestionOf(k).required = Given(q, "required", Bool(FALSE))

\* an entry whose descriptor gives none of the common fields, and one whose
\* descriptor gives all three
C7_Witness ==
    /\ Returned
    /\ \E k \in 1..Len(requests) :
         /\ DOMAIN Input[requests[k].createItem.location.index + 1] = {"type"}
         /\ QuestionOf(k).required = Bool(FALSE)
    /\ \E k \in 1..Len(requests) :
         /\ requests[k].createItem.item.title = Str("U")
         /\ requests[k].createItem.item.description = Str("d")
         /\ QuestionOf(k).required = Bool(TRUE)
         /\ Cardinality(DOMAIN QuestionOf(k) \cap Variants) = 1

\* C8: for every DATE descriptor the output dateQuestion carries includeTime
\* (the descriptor's include_time, false when missing) and includeYear (the
\* descriptor's include_year, true when missing); a flag given as false
\* stays false.
C8_DateFlags ==
    Returned =>
        \A j \in 1..Len(Input) :
            KindOf(Input[j]) = Str("DATE_QUESTION") =>
                /\ EntriesAt(j - 1) # {}
                /\ \A k \in EntriesAt(j - 1) :
                     QuestionOf(k).dateQuestion =
                         [includeTime |->
                              Given(Input[j], "include_time", Bool(FALSE)),
                          includeYear |->
                              Given(Input[j], "include_year", Bool(TRUE))]

\* a DATE descriptor with include_year given as false, and one with no flags
C8_Witness ==
    /\ Returned
    /\ \E j \in 1..Len(Input) : \E k \in EntriesAt(j - 1) :
         /\ KindOf(Input[j]) = Str("DATE_QUESTION")
         /\ "include_year" \in DOMAIN Input[j]
         /\ Input[j].include_year = Bool(FALSE)
         /\ QuestionOf(k).dateQuestion.includeYear = Bool(FALSE)
    /\ \E j \in 1..Len(Input) : \E k \in EntriesAt(j - 1) :
         /\ KindOf(Input[j]) = Str("DATE_QUESTION")
         /\ DOMAIN Input[j] \cap {"include_time", "include_year"} = {}
         /\ QuestionOf(k).dateQuestion =
                [includeTime |-> Bool(FALSE), includeYear |-> Bool(TRUE)]

\* C9: no step of the builder changes the input list or any descriptor in
\* it, and a second call on the same input returns what the first returned.
C9_InputUntouched ==
    [][/\ questions' = questions
       /\ (callNo' = 2 /\ builderStatus' = "returned") => requests' = previous']_vars

\* a second call has returned entries for descriptors with options and labels
C9_Witness ==
    /\ callNo = 2
    /\ Returned
    /\ requests = previous
    /\ \E j \in 1..Len(Input) :
         /\ GivenOptions(Input[j]) # <<>>
         /\ EntriesAt(j - 1) # {}
    /\ \E j \in 1..Len(Input) :
         /\ "scale_labels" \in DOMAIN Input[j]
         /\ EntriesAt(j - 1) # {}

\* C10: create_form issues forms.create exactly once and before any
\* batchUpdate; batchUpdate is issued at most once, only for a non-empty
\* questions argument and after create succeeded; when batchUpdate fails
\* with an HttpError the function still returns the confirmation for the
\* created form (form ID, edit URL, responder URL) with the warning.
C10_CreateThenBatch ==
    /\ calls \in {<<>>, <<"create">>, <<"create", "batchUpdate">>}
    /\ (entry = "create_form" /\ pc # "create") => calls # <<>>
    /\ Len(calls) = 2 =>
           /\ questions.t = "list"
           /\ questions.v # <<>>
           /\ createdForm \in CreatedForms
    /\ batchOutcome \in {"rejected", "unavailable"} =>
           /\ pc = "done"
           /\ result.status = "returned"
           /\ result.warning
           /\ result.formId = "F1"
           /\ result.editUrl = "https://docs.google.com/forms/d/F1/edit"
           /\ result.responderUrl \in
                  {"https://forms.gle/F1",
                   "https://docs.google.com/forms/d/F1/viewform"}
           /\ createdForm \in CreatedForms

\* batchUpdate was refused after the form had been created
C10_Witness ==
    /\ calls = <<"create", "batchUpdate">>
    /\ batchOutcome = "rejected"
    /\ result.status = "returned"
    /\ result.warning

====
